---- MODULE Spec2Model ----
(***************************************************************************)
(* notto: hierarchical note storage (Writer) and concurrent search         *)
(* (Finder).  The Writer part models the filesystem below the base         *)
(* directory and the operations of src/src/writer/mod.rs on it.            *)
(***************************************************************************)
EXTENDS Integers, Sequences, FiniteSets, TLC

VARIABLES
    fs,        \* the tree below base_path: path -> node (directory or file with its bytes)
    saved,     \* history: the logical notes <<parent, name>> whose save returned Ok
    lastOp,    \* history: the last Writer call, its arguments and its result
    allOk,     \* history: every Writer call so far returned Ok
    nOps,      \* number of Writer calls made
    wr,        \* the save calls of two concurrent callers: where each one is
    fpc,       \* Finder::find: where the call is
    froot,     \* Finder::find: the path searched
    conds,     \* Finder::find: the conditions of the call
    stack,     \* Finder::read_dir: the frames of the recursive walk, innermost last
    wg,        \* the WaitGroup: number of live handles
    tasks,     \* the leaf threads spawned: path -> where the thread is
    spawns,    \* history: number of thread::spawn calls of the search
    chan,      \* the unbounded channel: messages sent and not yet received
    received,  \* what the caller has taken from the receiver
    unreadable, \* the entries whose read fails
    arg,       \* the arguments a function is applied to
    out        \* what the function returned for them

wvars == <<fs, saved, lastOp, allOk, nOps, wr>>
pvars == <<arg, out>>
fvars == <<fpc, froot, conds, stack, wg, tasks, spawns, chan, received, unreadable>>
vars == <<fs, saved, lastOp, allOk, nOps, wr, fpc, froot, conds, stack, wg, tasks, spawns, chan, received, unreadable, arg, out>>

(***************************************************************************)
(* Bounds and input sets                                                   *)
(***************************************************************************)
\* number of Writer calls in a run
MaxOps == 3
\* number of notes in the largest tree searched
MaxNotes == 3

\* A file or directory name is <<stem, extension>>: "a" is <<"a", "">>,
\* "a.md" is <<"a", "md">>.
FILE_NAME_EXTENSION == "md"
DIR_ROOT_NOTE_NAME == <<"index", "md">>

A == <<"a", "">>
B == <<"b", "">>
Idx == <<"index", "">>
AMd == <<"a", "md">>

\* note names handed to save (with and without the extension)
SaveNames == {A, B, Idx, AMd}
\* parent paths handed to save / create_dir_all
Parents == {<< >>, <<A>>, <<A, Idx>>, <<AMd>>}
\* note files handed to convert_note_to_parent_note: a file-note, the root
\* file of a promoted note, and a path that is no file
PromotePaths == {<<AMd>>, <<A, DIR_ROOT_NOTE_NAME>>, <<A>>}
\* serialized note texts (Note::to_text), of two different lengths
Contents == {<<"x">>, <<"y", "z">>}
\* the name Uuid::new_v4() yields: never the name of an entry the user made
TmpNames == {<<"uuid1", "">>, <<"uuid2", "">>}

(***************************************************************************)
(* Paths and the filesystem (std::path, std::fs)                           *)
(***************************************************************************)
Stem(n) == n[1]
Ext(n) == n[2]
ParentOf(p) == SubSeq(p, 1, Len(p) - 1)
LastOf(p) == p[Len(p)]
Prefix(p, i) == SubSeq(p, 1, i)

DirNode == [kind |-> "dir", data |-> << >>]
FileNode(d) == [kind |-> "file", data |-> d]
EmptyFs == (<< >> :> DirNode)

\* Path::exists / is_file / is_dir on base_path.join(p)
Exists(f, p) == p \in DOMAIN f
IsFile(f, p) == p \in DOMAIN f /\ f[p].kind = "file"
IsDir(f, p) == p \in DOMAIN f /\ f[p].kind = "dir"

\* Path::set_extension: replaces the extension of the last component
SetExtension(p, e) == Append(ParentOf(p), <<Stem(LastOf(p)), e>>)
\* Path::with_file_name(file_stem): the last component without its extension
WithFileStem(p) == Append(ParentOf(p), <<Stem(LastOf(p)), "">>)

Res(r, f) == [res |-> r, fs |-> f]

\* fs::rename of a regular file: replaces an existing file, fails on a
\* missing source, a missing parent of the target, or a directory target
FsRename(f, from, to) ==
    IF /\ IsFile(f, from)
       /\ IsDir(f, ParentOf(to))
       /\ ~IsDir(f, to)
    THEN Res("Ok", [p \in (DOMAIN f \ {from}) \cup {to} |->
                        IF p = to THEN f[from] ELSE f[p]])
    ELSE Res("IoError", f)

\* fs::create_dir_all: every missing prefix becomes a directory; fails, and
\* creates nothing, when a prefix is a regular file
FsCreateDirAll(f, p) ==
    IF \E i \in 1..Len(p) : IsFile(f, Prefix(p, i))
    THEN Res("IoError", f)
    ELSE LET new == {Prefix(p, i) : i \in 1..Len(p)} \ DOMAIN f
         IN Res("Ok", [q \in DOMAIN f \cup new |->
                           IF q \in DOMAIN f THEN f[q] ELSE DirNode])

\* File::write at offset 0 of a file opened without truncate: the bytes of
\* the old content beyond the new length stay
WriteAtStart(old, d) ==
    IF Len(old) > Len(d) THEN d \o SubSeq(old, Len(d) + 1, Len(old)) ELSE d

\* OpenOptions::new().write(true).create(true).open(p) followed by
\* file.write(bytes)
OpenAndWrite(f, p, d) ==
    IF IsDir(f, p) \/ ~IsDir(f, ParentOf(p))
    THEN Res("IoError", f)
    ELSE LET old == IF p \in DOMAIN f THEN f[p].data ELSE << >>
         IN Res("Ok", [q \in DOMAIN f \cup {p} |->
                           IF q = p THEN FileNode(WriteAtStart(old, d)) ELSE f[q]])

(***************************************************************************)
(* Writer (src/src/writer/mod.rs)                                          *)
(***************************************************************************)
\* a temporary name that collides with nothing in the directory `dir`
FreshTmp(f, dir) == CHOOSE t \in TmpNames : Append(dir, t) \notin DOMAIN f

RECURSIVE convert_note_to_parent_note(_, _)
RECURSIVE create_dir_if_doesnt_exist(_, _)
RECURSIVE create_dir_from(_, _, _)

\* Writer::create_dir_all: create_dir_if_doesnt_exist on every prefix, in
\* order, stopping at the first error
create_dir_from(f, path, i) ==
    IF i > Len(path) THEN Res("Ok", f)
    ELSE LET r == create_dir_if_doesnt_exist(f, Prefix(path, i))
         IN IF r.res # "Ok" THEN r ELSE create_dir_from(r.fs, path, i + 1)

create_dir_all(f, path) == create_dir_from(f, path, 1)

\* a promotion that moves the temp file into the directory under the
\* note's own file name instead of DIR_ROOT_NOTE_NAME
convert_note_to_parent_note_keep_name(f, note_path) ==
    IF ~Exists(f, note_path) THEN Res("FileError", f)
    ELSE IF ~IsFile(f, note_path) THEN Res("FileError", f)
    ELSE LET dest_directory == WithFileStem(note_path)
             temp_file_path == Append(ParentOf(note_path),
                                      FreshTmp(f, ParentOf(note_path)))
             s1 == FsRename(f, note_path, temp_file_path)
         IN IF s1.res # "Ok" THEN s1
            ELSE LET s2 == create_dir_all(s1.fs, dest_directory)
                 IN IF s2.res # "Ok" THEN s2
                    ELSE FsRename(s2.fs, temp_file_path,
                                  Append(dest_directory, LastOf(note_path)))

\* a promotion without the is_file check of line 73
convert_note_to_parent_note_unchecked(f, note_path) ==
    IF ~Exists(f, note_path) THEN Res("FileError", f)
    ELSE LET dest_directory == WithFileStem(note_path)
             temp_file_path == Append(ParentOf(note_path),
                                      FreshTmp(f, ParentOf(note_path)))
             s1 == FsRename(f, note_path, temp_file_path)
         IN IF s1.res # "Ok" THEN s1
            ELSE LET s2 == create_dir_all(s1.fs, dest_directory)
                 IN IF s2.res # "Ok" THEN s2
                    ELSE FsRename(s2.fs, temp_file_path,
                                  Append(dest_directory, DIR_ROOT_NOTE_NAME))

\* Writer::convert_note_to_parent_note: leaf.md -> temp -> leaf/index.md
convert_note_to_parent_note(f, note_path) ==
    IF ~Exists(f, note_path) THEN Res("FileError", f)
    ELSE IF ~IsFile(f, note_path) THEN Res("FileError", f)
    ELSE LET dest_directory == WithFileStem(note_path)
             temp_file_path == Append(ParentOf(note_path),
                                      FreshTmp(f, ParentOf(note_path)))
             s1 == FsRename(f, note_path, temp_file_path)
         IN IF s1.res # "Ok" THEN s1
            ELSE LET s2 == create_dir_all(s1.fs, dest_directory)
                 IN IF s2.res # "Ok" THEN s2
                    ELSE FsRename(s2.fs, temp_file_path,
                                  Append(dest_directory, DIR_ROOT_NOTE_NAME))

\* Writer::create_dir_if_doesnt_exist
create_dir_if_doesnt_exist(f, path) ==
    IF Exists(f, path)
    THEN IF IsFile(f, path)
         THEN convert_note_to_parent_note(f, path)
         ELSE Res("Ok", f)
    ELSE LET possible_file == SetExtension(path, FILE_NAME_EXTENSION)
         IN IF Exists(f, possible_file)
            THEN convert_note_to_parent_note(f, possible_file)
            ELSE FsCreateDirAll(f, path)

NoType == [type |-> "None", name |-> << >>]
FileType(n) == [type |-> "File", name |-> n]
DirectoryType(n) == [type |-> "Directory", name |-> n]

\* a probe that looks for the directory before the file
note_file_exists_dir_first(f, path, file_name) ==
    LET note_file_name == <<Stem(file_name), FILE_NAME_EXTENSION>>
        note_dir_name == <<Stem(file_name), "">>
    IN IF /\ Exists(f, Append(path, note_dir_name))
          /\ Exists(f, Append(Append(path, note_dir_name), DIR_ROOT_NOTE_NAME))
       THEN DirectoryType(note_dir_name)
       ELSE IF IsFile(f, Append(path, note_file_name))
            THEN FileType(note_file_name)
            ELSE NoType

\* Writer::note_file_exists (probe)
note_file_exists(f, path, file_name) ==
    LET ends_with == Ext(file_name) = FILE_NAME_EXTENSION
        note_file_name == IF ends_with THEN file_name
                          ELSE <<Stem(file_name), FILE_NAME_EXTENSION>>
        note_dir_name == IF ends_with THEN <<Stem(file_name), "">>
                         ELSE file_name
    IN IF Exists(f, Append(path, note_file_name)) /\ IsFile(f, Append(path, note_file_name))
       THEN FileType(note_file_name)
       ELSE IF /\ Exists(f, Append(path, note_dir_name))
               /\ Exists(f, Append(Append(path, note_dir_name), DIR_ROOT_NOTE_NAME))
            THEN DirectoryType(note_dir_name)
            ELSE NoType

\* a target that is always the flat file name.md, also for a directory-note
TypePathFlat(path, t) == Append(path, <<Stem(t.name), FILE_NAME_EXTENSION>>)

\* the file a probe result stands for, below `path`
TypePath(path, t) ==
    IF t.type = "File" THEN Append(path, t.name)
    ELSE Append(Append(path, t.name), DIR_ROOT_NOTE_NAME)

\* the name without a trailing ".md" (save_note_at, lines 30-35)
StripExtension(file_name) ==
    IF Ext(file_name) = FILE_NAME_EXTENSION THEN <<Stem(file_name), "">> ELSE file_name

\* Writer::save_note_at; `text` is note.to_text()
save_note_at(f, text, path, file_name_in, overwrite) ==
    LET d == IF ~Exists(f, path) THEN create_dir_all(f, path) ELSE Res("Ok", f)
    IN IF d.res # "Ok" THEN [res |-> d.res, fs |-> d.fs, path |-> << >>]
       ELSE LET file_name == StripExtension(file_name_in)
                t == note_file_exists(d.fs, path, file_name)
            IN IF t.type # "None" /\ ~overwrite
               THEN [res |-> "NoteExists", fs |-> d.fs, path |-> << >>]
               ELSE LET save_path ==
                            IF t.type # "None" THEN TypePath(path, t)
                            ELSE Append(path, <<Stem(file_name), FILE_NAME_EXTENSION>>)
                        w == OpenAndWrite(d.fs, save_path, text)
                    IN [res |-> w.res, fs |-> w.fs,
                        path |-> IF w.res = "Ok" THEN save_path ELSE << >>]

\* the two callers of the Writer
CWriters == {1, 2}
\* a caller that has not called yet
NoCall == [pc |-> "idle", path |-> << >>, name |-> << >>, text |-> << >>,
           overwrite |-> FALSE, stack |-> << >>, save_path |-> << >>,
           res |-> "none", alone |-> TRUE]
WrIdle == [w \in CWriters |-> NoCall]

(***************************************************************************)
(* Writer calls as actions                                                 *)
(***************************************************************************)
NoOp == [op |-> "none", path |-> << >>, name |-> << >>, text |-> << >>,
         overwrite |-> FALSE, res |-> "Ok", target |-> << >>]

SaveNote(path, name, text, overwrite) ==
    /\ nOps < MaxOps
    /\ \E r \in {save_note_at(fs, text, path, name, overwrite)} :
          /\ fs' = r.fs
          /\ lastOp' = [op |-> "save", path |-> path, name |-> StripExtension(name),
                        text |-> text, overwrite |-> overwrite,
                        res |-> r.res, target |-> r.path]
          /\ saved' = IF r.res = "Ok"
                      THEN saved \cup {<<path, StripExtension(name)>>}
                      ELSE saved
          /\ allOk' = (allOk /\ r.res = "Ok")
    /\ nOps' = nOps + 1
    /\ UNCHANGED wr
    /\ UNCHANGED <<fvars, pvars>>

EnsureDir(path) ==
    /\ nOps < MaxOps
    /\ \E r \in {create_dir_all(fs, path)} :
          /\ fs' = r.fs
          /\ lastOp' = [op |-> "ensure_dir", path |-> path, name |-> << >>,
                        text |-> << >>, overwrite |-> FALSE,
                        res |-> r.res, target |-> << >>]
          /\ allOk' = (allOk /\ r.res = "Ok")
    /\ nOps' = nOps + 1
    /\ UNCHANGED <<saved, wr>>
    /\ UNCHANGED <<fvars, pvars>>

\* a direct call of the public convert_note_to_parent_note
Promote(note_path) ==
    /\ nOps < MaxOps
    /\ \E r \in {convert_note_to_parent_note(fs, note_path)} :
          /\ fs' = r.fs
          /\ lastOp' = [op |-> "promote", path |-> note_path, name |-> << >>,
                        text |-> << >>, overwrite |-> FALSE,
                        res |-> r.res, target |-> << >>]
          /\ allOk' = (allOk /\ r.res = "Ok")
    /\ nOps' = nOps + 1
    /\ UNCHANGED <<saved, wr>>
    /\ UNCHANGED <<fvars, pvars>>

FinderIdle ==
    /\ fpc = "idle"
    /\ froot = << >>
    /\ conds = << >>
    /\ stack = << >>
    /\ wg = 0
    /\ tasks = << >>
    /\ spawns = 0
    /\ chan = << >>
    /\ received = << >>
    /\ unreadable = {}
    /\ arg = << >>
    /\ out = << >>

Init ==
    /\ fs = EmptyFs
    /\ saved = {}
    /\ lastOp = NoOp
    /\ allOk = TRUE
    /\ nOps = 0
    /\ wr = WrIdle
    /\ FinderIdle

Next ==
    \/ \E path \in Parents, name \in SaveNames, text \in Contents, overwrite \in BOOLEAN :
          SaveNote(path, name, text, overwrite)
    \/ \E path \in Parents : EnsureDir(path)
    \/ \E note_path \in PromotePaths : Promote(note_path)

Spec == Init /\ [][Next]_vars

(***************************************************************************)
(* Two callers of save_note_at at once.  Each call is cut at its           *)
(* filesystem operations: a step is one check (exists, with the is_file    *)
(* that follows it on the same path) or one change (create_dir_all,        *)
(* rename, open and write) of src/src/writer/mod.rs.                       *)
(***************************************************************************)
\* a frame of Writer::create_dir_all: the path it creates, the prefix it is
\* at, and the note and temp file of the promotion it runs at that prefix
Frame(dir) == [dir |-> dir, i |-> 1, note |-> << >>, tmp |-> << >>]
TopFrame(r) == r.stack[Len(r.stack)]
CurPrefix(r) == Prefix(TopFrame(r).dir, TopFrame(r).i)
SetTop(r, fr) == [r EXCEPT !.stack[Len(r.stack)] = fr]

\* create_dir_if_doesnt_exist returned Ok for the current prefix: the loop
\* of create_dir_all goes on; after the last prefix create_dir_all returns,
\* to save_note_at (line 26) or to the promotion that called it (line 86)
Advance(r) ==
    LET fr == TopFrame(r)
    IN IF fr.i < Len(fr.dir)
       THEN [SetTop(r, [fr EXCEPT !.i = fr.i + 1, !.note = << >>, !.tmp = << >>])
                EXCEPT !.pc = "cd_exists"]
       ELSE IF Len(r.stack) = 1
            THEN [r EXCEPT !.stack = << >>, !.pc = "probe_file"]
            ELSE [r EXCEPT !.stack = SubSeq(r.stack, 1, Len(r.stack) - 1),
                           !.pc = "cv_rename2"]

\* an error returned with `?` ends the call
Fail(r, e) == [r EXCEPT !.pc = "done", !.res = e]

\* save_note_at, lines 25-27: the parent is looked up
CSaveStart(w, path, name, text, overwrite) ==
    /\ wr[w].pc = "idle"
    /\ LET r == [wr[w] EXCEPT !.path = path, !.name = StripExtension(name),
                              !.text = text, !.overwrite = overwrite,
                              !.alone = \A v \in CWriters \ {w} :
                                           wr[v].pc \in {"idle", "done"}]
       IN wr' = [wr EXCEPT ![w] =
                    IF ~Exists(fs, path)
                    THEN [r EXCEPT !.pc = "cd_exists", !.stack = <<Frame(path)>>]
                    ELSE [r EXCEPT !.pc = "probe_file"]]
    /\ UNCHANGED <<fs, saved, lastOp, allOk, nOps>>
    /\ UNCHANGED <<fvars, pvars>>

\* create_dir_if_doesnt_exist, lines 180-185
CDirExists(w) ==
    /\ wr[w].pc = "cd_exists"
    /\ LET r == wr[w]
           p == CurPrefix(r)
       IN wr' = [wr EXCEPT ![w] =
                    IF Exists(fs, p)
                    THEN IF IsFile(fs, p)
                         THEN [SetTop(r, [TopFrame(r) EXCEPT !.note = p])
                                  EXCEPT !.pc = "cv_check"]
                         ELSE Advance(r)
                    ELSE [r EXCEPT !.pc = "cd_possible"]]
    /\ UNCHANGED <<fs, saved, lastOp, allOk, nOps>>
    /\ UNCHANGED <<fvars, pvars>>

\* create_dir_if_doesnt_exist, lines 187-190
CDirPossible(w) ==
    /\ wr[w].pc = "cd_possible"
    /\ LET r == wr[w]
           possible_file == SetExtension(CurPrefix(r), FILE_NAME_EXTENSION)
       IN wr' = [wr EXCEPT ![w] =
                    IF Exists(fs, possible_file)
                    THEN [SetTop(r, [TopFrame(r) EXCEPT !.note = possible_file])
                             EXCEPT !.pc = "cv_check"]
                    ELSE [r EXCEPT !.pc = "cd_mkdir"]]
    /\ UNCHANGED <<fs, saved, lastOp, allOk, nOps>>
    /\ UNCHANGED <<fvars, pvars>>

\* a directory creation that reports Ok without creating anything
CDirMakeSkip(w) ==
    /\ wr[w].pc = "cd_mkdir"
    /\ wr' = [wr EXCEPT ![w] = Advance(wr[w])]
    /\ UNCHANGED <<fs, saved, lastOp, allOk, nOps>>
    /\ UNCHANGED <<fvars, pvars>>

\* create_dir_if_doesnt_exist, lines 192-193
CDirMake(w) ==
    /\ wr[w].pc = "cd_mkdir"
    /\ LET r == wr[w]
           s == FsCreateDirAll(fs, CurPrefix(r))
       IN /\ fs' = s.fs
          /\ wr' = [wr EXCEPT ![w] = IF s.res = "Ok" THEN Advance(r)
                                     ELSE Fail(r, s.res)]
    /\ UNCHANGED <<saved, lastOp, allOk, nOps>>
    /\ UNCHANGED <<fvars, pvars>>

\* convert_note_to_parent_note, lines 70-75
CConvertCheck(w) ==
    /\ wr[w].pc = "cv_check"
    /\ LET r == wr[w]
           note_path == TopFrame(r).note
       IN wr' = [wr EXCEPT ![w] =
                    IF ~Exists(fs, note_path) \/ ~IsFile(fs, note_path)
                    THEN Fail(r, "FileError")
                    ELSE [r EXCEPT !.pc = "cv_rename1"]]
    /\ UNCHANGED <<fs, saved, lastOp, allOk, nOps>>
    /\ UNCHANGED <<fvars, pvars>>

\* convert_note_to_parent_note, lines 79-86: the note is moved to its temp
\* name and create_dir_all is called on the destination directory
CConvertRename1(w) ==
    /\ wr[w].pc = "cv_rename1"
    /\ LET r == wr[w]
           note_path == TopFrame(r).note
           temp_file_path == Append(ParentOf(note_path),
                                    FreshTmp(fs, ParentOf(note_path)))
           s == FsRename(fs, note_path, temp_file_path)
       IN /\ fs' = s.fs
          /\ wr' = [wr EXCEPT ![w] =
                       IF s.res # "Ok" THEN Fail(r, s.res)
                       ELSE [SetTop(r, [TopFrame(r) EXCEPT !.tmp = temp_file_path])
                                EXCEPT !.pc = "cd_exists",
                                       !.stack = Append(@, Frame(WithFileStem(note_path)))]]
    /\ UNCHANGED <<saved, lastOp, allOk, nOps>>
    /\ UNCHANGED <<fvars, pvars>>

\* a promotion that returns Ok with its temp file left where it is
CConvertRename2Skip(w) ==
    /\ wr[w].pc = "cv_rename2"
    /\ wr' = [wr EXCEPT ![w] = Advance(wr[w])]
    /\ UNCHANGED <<fs, saved, lastOp, allOk, nOps>>
    /\ UNCHANGED <<fvars, pvars>>

\* convert_note_to_parent_note, lines 88-91: the temp file is moved into the
\* directory as index.md
CConvertRename2(w) ==
    /\ wr[w].pc = "cv_rename2"
    /\ LET r == wr[w]
           fr == TopFrame(r)
           s == FsRename(fs, fr.tmp,
                         Append(WithFileStem(fr.note), DIR_ROOT_NOTE_NAME))
       IN /\ fs' = s.fs
          /\ wr' = [wr EXCEPT ![w] = IF s.res = "Ok" THEN Advance(r)
                                     ELSE Fail(r, s.res)]
    /\ UNCHANGED <<saved, lastOp, allOk, nOps>>
    /\ UNCHANGED <<fvars, pvars>>

\* the result of the probe reaches the match of save_note_at, lines 37-60
Probed(r, t) ==
    IF t.type # "None" /\ ~r.overwrite THEN Fail(r, "NoteExists")
    ELSE [r EXCEPT !.pc = "write",
                   !.save_path =
                       IF t.type # "None" THEN TypePath(r.path, t)
                       ELSE Append(r.path, <<Stem(r.name), FILE_NAME_EXTENSION>>)]

\* note_file_exists, lines 123-128
CProbeFile(w) ==
    /\ wr[w].pc = "probe_file"
    /\ LET r == wr[w]
           note_file_name == <<Stem(r.name), FILE_NAME_EXTENSION>>
       IN wr' = [wr EXCEPT ![w] =
                    IF IsFile(fs, Append(r.path, note_file_name))
                    THEN Probed(r, FileType(note_file_name))
                    ELSE [r EXCEPT !.pc = "probe_dir"]]
    /\ UNCHANGED <<fs, saved, lastOp, allOk, nOps>>
    /\ UNCHANGED <<fvars, pvars>>

\* note_file_exists, lines 131-133
CProbeDir(w) ==
    /\ wr[w].pc = "probe_dir"
    /\ LET r == wr[w]
       IN wr' = [wr EXCEPT ![w] =
                    IF Exists(fs, Append(r.path, r.name))
                    THEN [r EXCEPT !.pc = "probe_index"]
                    ELSE Probed(r, NoType)]
    /\ UNCHANGED <<fs, saved, lastOp, allOk, nOps>>
    /\ UNCHANGED <<fvars, pvars>>

\* note_file_exists, lines 134-140
CProbeIndex(w) ==
    /\ wr[w].pc = "probe_index"
    /\ LET r == wr[w]
       IN wr' = [wr EXCEPT ![w] =
                    IF Exists(fs, Append(Append(r.path, r.name), DIR_ROOT_NOTE_NAME))
                    THEN Probed(r, DirectoryType(r.name))
                    ELSE Probed(r, NoType)]
    /\ UNCHANGED <<fs, saved, lastOp, allOk, nOps>>
    /\ UNCHANGED <<fvars, pvars>>

\* save_note_at, lines 62-65: the target is opened and the text written
CWrite(w) ==
    /\ wr[w].pc = "write"
    /\ LET r == wr[w]
           s == OpenAndWrite(fs, r.save_path, r.text)
       IN /\ fs' = s.fs
          /\ wr' = [wr EXCEPT ![w] = Fail(r, s.res)]
          /\ saved' = IF s.res = "Ok" THEN saved \cup {<<r.path, r.name>>}
                      ELSE saved
    /\ UNCHANGED <<lastOp, allOk, nOps>>
    /\ UNCHANGED <<fvars, pvars>>

\* the trees the two calls start on: empty, and the note "a" saved as a.md
ConcTrees == {EmptyFs, save_note_at(EmptyFs, <<"x">>, << >>, A, FALSE).fs}
\* the parents and names of the two calls: below "a", and one level deeper
ConcParents == {<<A>>, <<A, B>>}
ConcNames == {A, B}

ConcInit ==
    /\ fs \in ConcTrees
    /\ saved = IF IsFile(fs, <<AMd>>) THEN {<<<< >>, A>>} ELSE {}
    /\ lastOp = NoOp
    /\ allOk = TRUE
    /\ nOps = 0
    /\ wr = WrIdle
    /\ FinderIdle

ConcNext ==
    \E w \in CWriters :
       \/ \E path \in ConcParents, name \in ConcNames, overwrite \in BOOLEAN :
             CSaveStart(w, path, name, <<"y">>, overwrite)
       \/ CDirExists(w)
       \/ CDirPossible(w)
       \/ CDirMake(w)
       \/ CConvertCheck(w)
       \/ CConvertRename1(w)
       \/ CConvertRename2(w)
       \/ CProbeFile(w)
       \/ CProbeDir(w)
       \/ CProbeIndex(w)
       \/ CWrite(w)

ConcSpec == ConcInit /\ [][ConcNext]_vars

(***************************************************************************)
(* One caller of save_note_at, step by step as above, whose process may    *)
(* stop at any step.  The call starts on a tree that earlier saves built;  *)
(* the notes of a tree hold different texts.                               *)
(***************************************************************************)
\* the process stops: nothing of the call runs any more, the tree stays
Crash(w) ==
    /\ wr[w].pc \notin {"idle", "done", "crashed"}
    /\ wr' = [wr EXCEPT ![w].pc = "crashed"]
    /\ UNCHANGED <<fs, saved, lastOp, allOk, nOps>>
    /\ UNCHANGED <<fvars, pvars>>

\* a.md
TreeFlat == save_note_at(EmptyFs, <<"p">>, << >>, A, FALSE).fs
\* a/ holding b.md
TreeChild == save_note_at(EmptyFs, <<"q">>, <<A>>, B, FALSE).fs
\* a/index.md and a/b.md: "a" saved, then "a/b"
TreePromoted == save_note_at(TreeFlat, <<"q">>, <<A>>, B, FALSE).fs
\* a.md beside a/ holding b.md: "a/b" saved, then "a"
TreeBeside == save_note_at(TreeChild, <<"p">>, << >>, A, FALSE).fs
\* a.md beside a/ holding b.md and index.md: then "a/index" saved
TreeBoth == save_note_at(TreeBeside, <<"r">>, <<A>>, Idx, FALSE).fs

StepTrees == {EmptyFs, TreeFlat, TreeChild, TreePromoted, TreeBeside, TreeBoth}
\* the parents of the call: the base directory, below "a", one level
\* deeper, below the reserved name, and below the file name of the note "a"
StepParents == {<< >>, <<A>>, <<A, B>>, <<A, Idx>>, <<AMd, B>>}
StepNames == {A, B}

StepInit ==
    /\ fs \in StepTrees
    /\ saved = {}
    /\ lastOp = NoOp
    /\ allOk = TRUE
    /\ nOps = 0
    /\ wr = WrIdle
    /\ fpc = "idle"
    /\ froot = << >>
    /\ conds = << >>
    /\ stack = << >>
    /\ wg = 0
    /\ tasks = << >>
    /\ spawns = 0
    /\ chan = << >>
    /\ received = << >>
    /\ unreadable = {}
    /\ arg = fs
    /\ out = << >>

StepNext ==
    \/ \E path \in StepParents, name \in StepNames, overwrite \in BOOLEAN :
          CSaveStart(1, path, name, <<"y">>, overwrite)
    \/ CDirExists(1)
    \/ CDirPossible(1)
    \/ CDirMake(1)
    \/ CConvertCheck(1)
    \/ CConvertRename1(1)
    \/ CConvertRename2(1)
    \/ CProbeFile(1)
    \/ CProbeDir(1)
    \/ CProbeIndex(1)
    \/ CWrite(1)
    \/ Crash(1)

StepSpec == StepInit /\ [][StepNext]_vars

(***************************************************************************)
(* Finder (src/src/finder/mod.rs)                                          *)
(***************************************************************************)
ResultMsg(p) == [type |-> "Result", path |-> p]
FinishMsg == [type |-> "Finish", path |-> << >>]

TextCond(t) == [kind |-> "Text", text |-> t]
TagCond == [kind |-> "Tag", text |-> << >>]
DateCond == [kind |-> "Date", text |-> << >>]
TimeCond == [kind |-> "Time", text |-> << >>]

\* char::to_uppercase on the characters the texts are made of; "K_212A" is
\* U+212A KELVIN SIGN, an uppercase letter whose lowercase is "k"
UpperChar(c) ==
    CASE c = "x" -> "X"
      [] c = "k" -> "K"
      [] c = "y" -> "Y"
      [] c = "z" -> "Z"
      [] OTHER -> c
\* char::to_lowercase on the same characters
LowerChar(c) ==
    CASE c = "X" -> "x"
      [] c = "Y" -> "y"
      [] c = "Z" -> "z"
      [] c = "K" -> "k"
      [] c = "K_212A" -> "k"
      [] OTHER -> c
\* str::to_uppercase
ToUppercase(t) == [i \in 1..Len(t) |-> UpperChar(t[i])]
\* str::find(..).is_some()
Contains(hay, needle) ==
    \E i \in 0..(Len(hay) - Len(needle)) : SubSeq(hay, i + 1, i + Len(needle)) = needle

\* Note::from_text(..).content: what follows the front matter, a block opened
\* by a "---" line at position 0 and closed by the next "---" line; the whole
\* text when there is no closed block.  A text is a sequence of characters in
\* which "---" stands for a delimiter line.
NoteContent(text) ==
    IF Len(text) > 0 /\ text[1] = "---" /\ \E j \in 2..Len(text) : text[j] = "---"
    THEN LET close == CHOOSE j \in 2..Len(text) :
                          text[j] = "---" /\ \A k \in 2..(j - 1) : text[k] # "---"
         IN SubSeq(text, close + 1, Len(text))
    ELSE text

\* the match of one condition (find, lines 49-56)
CondMatches(cond, content) ==
    IF cond.kind = "Text"
    THEN Contains(ToUppercase(content), ToUppercase(cond.text))
    ELSE FALSE

\* a predicate that is satisfied by one matching condition
check_conds_any(cs, content) == \E i \in 1..Len(cs) : CondMatches(cs[i], content)

\* check_conds: every condition matches (find, lines 47-64)
check_conds(cs, content) == \A i \in 1..Len(cs) : CondMatches(cs[i], content)

\* a walk that lists the files of a directory and misses its subdirectories
ChildrenFilesOnly(f, d) ==
    {p \in DOMAIN f : Len(p) = Len(d) + 1 /\ ParentOf(p) = d /\ f[p].kind = "file"}

\* fs::read_dir: the entries of a directory
Children(f, d) == {p \in DOMAIN f : Len(p) = Len(d) + 1 /\ ParentOf(p) = d}

\* a channel with room for one message: a send waits while it is full
CanSendBounded(c) == Len(c) < 1

\* crossbeam_channel::unbounded(): a send never waits for room
CanSend(c) == TRUE

\* find, lines 45-67: the channel and the WaitGroup are made and read_dir is
\* called on the root with a clone of each; a root that cannot be read makes
\* read_dir, and with it find, return the error
FindCall(root, cs) ==
    /\ fpc = "idle"
    /\ froot' = root
    /\ conds' = cs
    /\ chan' = << >>
    /\ IF IsDir(fs, root) /\ root \notin unreadable
       THEN /\ fpc' = "walk"
            /\ wg' = 2
            /\ stack' = <<[dir |-> root, todo |-> Children(fs, root)]>>
       ELSE /\ fpc' = "failed"
            /\ wg' = 0
            /\ stack' = << >>
    /\ UNCHANGED <<tasks, spawns, received, unreadable>>
    /\ UNCHANGED <<wvars, pvars>>

Top == stack[Len(stack)]
Pop == SubSeq(stack, 1, Len(stack) - 1)

\* a walk that enters a directory whether or not it can be read
WalkDirEnter(p) ==
    /\ fpc = "walk"
    /\ p \in Top.todo
    /\ IsDir(fs, p)
    /\ stack' = Append([stack EXCEPT ![Len(stack)].todo = @ \ {p}],
                       [dir |-> p, todo |-> Children(fs, p)])
    /\ wg' = wg + 1
    /\ UNCHANGED <<spawns, fpc, froot, conds, tasks, chan, received, unreadable>>
    /\ UNCHANGED <<wvars, pvars>>

\* read_dir, lines 79-80: the entry is a directory; read_dir is called on it
\* with a clone of the WaitGroup, and its error is only logged
WalkDir(p) ==
    /\ fpc = "walk"
    /\ p \in Top.todo
    /\ IsDir(fs, p)
    /\ LET rest == [stack EXCEPT ![Len(stack)].todo = @ \ {p}]
       IN IF p \in unreadable
          THEN stack' = rest /\ wg' = wg
          ELSE /\ stack' = Append(rest, [dir |-> p, todo |-> Children(fs, p)])
               /\ wg' = wg + 1
    /\ UNCHANGED <<spawns, fpc, froot, conds, tasks, chan, received, unreadable>>
    /\ UNCHANGED <<wvars, pvars>>

\* read_dir, lines 81-94: the entry is a leaf; a thread is spawned for it
\* with a clone of the sender and of the WaitGroup
WalkFile(p) ==
    /\ fpc = "walk"
    /\ p \in Top.todo
    /\ ~IsDir(fs, p)
    /\ stack' = [stack EXCEPT ![Len(stack)].todo = @ \ {p}]
    /\ wg' = wg + 1
    /\ tasks' = [q \in DOMAIN tasks \cup {p} |-> IF q = p THEN "spawned" ELSE tasks[q]]
    /\ spawns' = spawns + 1
    /\ UNCHANGED <<fpc, froot, conds, chan, received, unreadable>>
    /\ UNCHANGED <<wvars, pvars>>

\* read_dir, lines 95-99: the loop is over; the WaitGroup handle is dropped
\* and read_dir returns to its caller (find, after the outermost one)
WalkReturn ==
    /\ fpc = "walk"
    /\ Top.todo = {}
    /\ wg' = wg - 1
    /\ stack' = Pop
    /\ fpc' = IF Len(stack) = 1 THEN "wait" ELSE "walk"
    /\ UNCHANGED <<spawns, froot, conds, tasks, chan, received, unreadable>>
    /\ UNCHANGED <<wvars, pvars>>

\* a thread whose failed read ends it with its WaitGroup handle never dropped
TaskReadLeak(p) ==
    /\ p \in DOMAIN tasks
    /\ tasks[p] = "spawned"
    /\ IF p \in unreadable
       THEN tasks' = [tasks EXCEPT ![p] = "done"] /\ wg' = wg
       ELSE /\ tasks' = [tasks EXCEPT ![p] =
                            IF check_conds(conds, NoteContent(fs[p].data))
                            THEN "matched" ELSE "unmatched"]
            /\ wg' = wg
    /\ UNCHANGED <<spawns, fpc, froot, conds, stack, chan, received, unreadable>>
    /\ UNCHANGED <<wvars, pvars>>

\* thread, lines 85-87: the file is read (unwrap: a failed read panics, and
\* unwinding drops the thread's WaitGroup handle), parsed and matched
TaskRead(p) ==
    /\ p \in DOMAIN tasks
    /\ tasks[p] = "spawned"
    /\ IF p \in unreadable
       THEN tasks' = [tasks EXCEPT ![p] = "done"] /\ wg' = wg - 1
       ELSE /\ tasks' = [tasks EXCEPT ![p] =
                            IF check_conds(conds, NoteContent(fs[p].data))
                            THEN "matched" ELSE "unmatched"]
            /\ wg' = wg
    /\ UNCHANGED <<spawns, fpc, froot, conds, stack, chan, received, unreadable>>
    /\ UNCHANGED <<wvars, pvars>>

\* thread, lines 88-89: the Result of a matching note is sent
TaskSend(p) ==
    /\ p \in DOMAIN tasks
    /\ tasks[p] = "matched"
    /\ CanSend(chan)
    /\ chan' = Append(chan, ResultMsg(p))
    /\ tasks' = [tasks EXCEPT ![p] = "sent"]
    /\ UNCHANGED <<spawns, fpc, froot, conds, stack, wg, received, unreadable>>
    /\ UNCHANGED <<wvars, pvars>>

\* thread, line 92: drop(wg_cloned)
TaskDrop(p) ==
    /\ p \in DOMAIN tasks
    /\ tasks[p] \in {"sent", "unmatched"}
    /\ tasks' = [tasks EXCEPT ![p] = "done"]
    /\ wg' = wg - 1
    /\ UNCHANGED <<spawns, fpc, froot, conds, stack, chan, received, unreadable>>
    /\ UNCHANGED <<wvars, pvars>>

\* a wait that returns at once, whatever handles are left
WaitDoneAtOnce(w) == TRUE

\* WaitGroup::wait: gives up find's own handle and returns once no other
\* handle is left
WaitDone(w) == w = 1

\* find, line 69: wg.wait()
FindWait ==
    /\ fpc = "wait"
    /\ WaitDone(wg)
    /\ wg' = 0
    /\ fpc' = "finish"
    /\ UNCHANGED <<spawns, froot, conds, stack, tasks, chan, received, unreadable>>
    /\ UNCHANGED <<wvars, pvars>>

\* find, line 70: tx.send(NoteFindMessage::Finish)
FindSendFinish ==
    /\ fpc = "finish"
    /\ CanSend(chan)
    /\ chan' = Append(chan, FinishMsg)
    /\ fpc' = "return"
    /\ UNCHANGED <<spawns, froot, conds, stack, wg, tasks, received, unreadable>>
    /\ UNCHANGED <<wvars, pvars>>

\* find, line 72: Ok(rx): from here on the caller holds the receiver
FindReturn ==
    /\ fpc = "return"
    /\ fpc' = "returned"
    /\ UNCHANGED <<spawns, froot, conds, stack, wg, tasks, chan, received, unreadable>>
    /\ UNCHANGED <<wvars, pvars>>

CallerHasReceiver == fpc = "returned"

\* the caller takes the next message from the receiver find returned
Recv ==
    /\ CallerHasReceiver
    /\ chan # << >>
    /\ received' = Append(received, Head(chan))
    /\ chan' = Tail(chan)
    /\ UNCHANGED <<spawns, fpc, froot, conds, stack, wg, tasks, unreadable>>
    /\ UNCHANGED <<wvars, pvars>>

\* the texts of the notes of the searched trees: "m" is a metadata line
T1 == <<"---", "m", "---", "x", "y">>
T2 == <<"X">>
T3 == <<"---", "x", "---", "z">>

\* the notes saved, in this order, to make the searched trees
FinderNotes == <<
    [path |-> << >>, name |-> A, text |-> T1],
    [path |-> <<A>>, name |-> B, text |-> T2],
    [path |-> << >>, name |-> B, text |-> T3],
    [path |-> <<A, B>>, name |-> A, text |-> T2],
    [path |-> <<B>>, name |-> A, text |-> T1] >>

RECURSIVE TreeAfter(_)
\* what the first k saves leave below the base directory
TreeAfter(k) ==
    IF k = 0 \/ k > Len(FinderNotes) THEN EmptyFs
    ELSE LET n == FinderNotes[k]
         IN save_note_at(TreeAfter(k - 1), n.text, n.path, n.name, FALSE).fs

FinderTrees == {TreeAfter(k) : k \in 0..MaxNotes}
FinderPaths == UNION {DOMAIN t : t \in FinderTrees}

FindRoots == {<< >>, <<A>>, <<B>>}
FindConds ==
    {<< >>, <<TextCond(<<"x">>)>>, <<TextCond(<<"X">>), TagCond>>,
     <<TextCond(<<"x">>), TextCond(<<"y">>)>>, <<DateCond>>,
     <<TextCond(<<"x">>), TimeCond>>}

FinderInit ==
    /\ fs \in FinderTrees
    /\ saved = {}
    /\ lastOp = NoOp
    /\ allOk = TRUE
    /\ nOps = 0
    /\ wr = WrIdle
    /\ fpc = "idle"
    /\ froot = << >>
    /\ conds = << >>
    /\ stack = << >>
    /\ wg = 0
    /\ tasks = << >>
    /\ spawns = 0
    /\ chan = << >>
    /\ received = << >>
    /\ \E u \in DOMAIN fs : unreadable \in {{}, {u}}
    /\ arg = << >>
    /\ out = << >>

FinderNext ==
    \/ \E root \in FindRoots, cs \in FindConds : FindCall(root, cs)
    \/ \E p \in DOMAIN fs : WalkDir(p)
    \/ \E p \in DOMAIN fs : WalkFile(p)
    \/ WalkReturn
    \/ \E p \in DOMAIN fs : TaskRead(p)
    \/ \E p \in DOMAIN fs : TaskSend(p)
    \/ \E p \in DOMAIN fs : TaskDrop(p)
    \/ FindWait
    \/ FindSendFinish
    \/ FindReturn
    \/ Recv

FinderSpec == FinderInit /\ [][FinderNext]_vars

\* the threads and the thread running find are scheduled by the operating
\* system: each step that stays possible is eventually taken
FinderFairness ==
    /\ WF_vars(\E p \in DOMAIN fs : WalkDir(p))
    /\ WF_vars(\E p \in DOMAIN fs : WalkFile(p))
    /\ WF_vars(WalkReturn)
    /\ \A p \in FinderPaths : WF_vars(TaskRead(p))
    /\ \A p \in FinderPaths : WF_vars(TaskSend(p))
    /\ \A p \in FinderPaths : WF_vars(TaskDrop(p))
    /\ WF_vars(FindWait)
    /\ WF_vars(FindSendFinish)
    /\ WF_vars(FindReturn)

FinderFairSpec == FinderInit /\ [][FinderNext]_vars /\ FinderFairness

(***************************************************************************)
(* The Text condition applied to one content and one query (find, lines    *)
(* 50-52), and applied again after the case of a letter has been changed   *)
(***************************************************************************)
\* length of the longest content and query
MaxText == 2
TextChars == {"x", "X", "k", "K_212A"}
RECURSIVE TextsUpTo(_)
TextsUpTo(n) ==
    IF n = 0 THEN {<< >>}
    ELSE TextsUpTo(n - 1) \cup
         {Append(t, c) : t \in {u \in TextsUpTo(n - 1) : Len(u) = n - 1}, c \in TextChars}

MatchOf(content, query) ==
    IF CondMatches(TextCond(query), content) THEN "match" ELSE "no match"

\* the letter at position i in the other case
Recase(t, i, upper) ==
    [t EXCEPT ![i] = IF upper THEN UpperChar(@) ELSE LowerChar(@)]

TextInit ==
    /\ fs = EmptyFs
    /\ saved = {}
    /\ lastOp = NoOp
    /\ allOk = TRUE
    /\ nOps = 0
    /\ wr = WrIdle
    /\ fpc = "idle"
    /\ froot = << >>
    /\ conds = << >>
    /\ stack = << >>
    /\ wg = 0
    /\ tasks = << >>
    /\ spawns = 0
    /\ chan = << >>
    /\ received = << >>
    /\ unreadable = {}
    /\ \E c \in TextsUpTo(MaxText), q \in TextsUpTo(MaxText) :
          arg = [content |-> c, query |-> q]
    /\ out = "none"

TextMatch ==
    /\ out = "none"
    /\ out' = MatchOf(arg.content, arg.query)
    /\ UNCHANGED <<arg, wvars, fvars>>

RecaseQuery(i, upper) ==
    /\ out # "none"
    /\ i \in 1..Len(arg.query)
    /\ arg' = [arg EXCEPT !.query = Recase(@, i, upper)]
    /\ out' = MatchOf(arg'.content, arg'.query)
    /\ UNCHANGED <<wvars, fvars>>

RecaseContent(i, upper) ==
    /\ out # "none"
    /\ i \in 1..Len(arg.content)
    /\ arg' = [arg EXCEPT !.content = Recase(@, i, upper)]
    /\ out' = MatchOf(arg'.content, arg'.query)
    /\ UNCHANGED <<wvars, fvars>>

TextNext ==
    \/ TextMatch
    \/ \E i \in 1..MaxText, upper \in BOOLEAN : RecaseQuery(i, upper)
    \/ \E i \in 1..MaxText, upper \in BOOLEAN : RecaseContent(i, upper)

TextSpec == TextInit /\ [][TextNext]_vars

(***************************************************************************)
(* Browser (src/src/io/browser.rs).  A name is a sequence of characters.   *)
(***************************************************************************)
\* number of entries of the largest directory listed
MaxEntries == 3

\* the characters of the names, in the order of their codes
Chars == <<" ", "+", "-", ".", "0", "1", "2", "[", "]", "a", "b", "d", "e",
           "g", "h", "i", "l", "m", "n", "p", "t", "x", "z">>
CharCode(c) == CHOOSE i \in 1..Len(Chars) : Chars[i] = c
Digits == {"0", "1", "2"}
DigitValue(c) == CharCode(c) - CharCode("0")

\* Ord for String: byte-wise lexicographic
StrLess(a, b) ==
    \/ Len(a) < Len(b) /\ SubSeq(b, 1, Len(a)) = a
    \/ \E i \in 1..Len(a) :
          /\ i <= Len(b)
          /\ SubSeq(a, 1, i - 1) = SubSeq(b, 1, i - 1)
          /\ CharCode(a[i]) < CharCode(b[i])

RECURSIVE DecimalValue(_)
DecimalValue(ds) ==
    IF ds = << >> THEN 0
    ELSE 10 * DecimalValue(SubSeq(ds, 1, Len(ds) - 1)) + DigitValue(ds[Len(ds)])

\* str::parse::<i32>: an optional sign and at least one digit, within i32
ParseI32(name) ==
    LET signed == Len(name) > 0 /\ name[1] \in {"+", "-"}
        ds == IF signed THEN Tail(name) ELSE name
        v == IF Len(name) > 0 /\ name[1] = "-" THEN 0 - DecimalValue(ds)
             ELSE DecimalValue(ds)
    IN IF ds = << >> \/ (\E i \in 1..Len(ds) : ds[i] \notin Digits)
       THEN [ok |-> FALSE, val |-> 0]
       ELSE IF v < (0 - 2147483647) - 1 \/ v > 2147483647
            THEN [ok |-> FALSE, val |-> 0]
            ELSE [ok |-> TRUE, val |-> v]

\* PartialOrd for PathEntry (lines 106-119)
partial_cmp(self, other) ==
    IF self.is_dir = other.is_dir
    THEN LET s == ParseI32(self.name)
             o == ParseI32(other.name)
         IN IF s.ok /\ o.ok
            THEN IF s.val < o.val THEN "Less"
                 ELSE IF s.val = o.val THEN "Equal" ELSE "Greater"
            ELSE IF StrLess(self.name, other.name) THEN "Less"
                 ELSE IF self.name = other.name THEN "Equal" ELSE "Greater"
    ELSE IF self.is_dir THEN "Less" ELSE "Greater"

\* PartialOrd::lt, the comparison slice::sort calls
lt(a, b) == partial_cmp(a, b) = "Less"

RECURSIVE InsertHead(_, _)
\* the insertion step of slice::sort on a short slice: x, put before the
\* sorted v, moves right past every element that is less than x
InsertHead(x, v) ==
    IF v = << >> \/ ~lt(v[1], x) THEN <<x>> \o v
    ELSE <<v[1]>> \o InsertHead(x, Tail(v))

RECURSIVE Sort(_)
\* slice::sort of a short slice: insertion from the last element to the first
Sort(v) == IF v = << >> THEN << >> ELSE InsertHead(Head(v), Sort(Tail(v)))

\* a directory entry as fs::read_dir gives it: its file name, whether it is
\* a directory and, for a file, the title of the note in it and whether the
\* file can be read
DirEntry(n, d) == [file_name |-> n, is_dir |-> d, title |-> << >>, readable |-> TRUE]
NoteEntry(n, t, r) == [file_name |-> n, is_dir |-> FALSE, title |-> t, readable |-> r]

\* the PathEntry pushed for a directory entry (lines 160-175)
PathEntryOf(e) ==
    IF e.is_dir
    THEN [name |-> e.file_name, path |-> e.file_name, is_dir |-> TRUE]
    ELSE [name |-> e.title \o <<" ", "[">> \o e.file_name \o <<"]">>,
          path |-> e.file_name, is_dir |-> FALSE]

\* line 153-157
Hidden(e) == Len(e.file_name) > 0 /\ e.file_name[1] = "."

\* a listing that shows hidden entries too
ListedAll(e) == e.is_dir \/ e.readable

\* a listing that gives a PathEntry to a file it could not read
ListedUnread(e) == ~Hidden(e)

\* the entries that get a PathEntry: not hidden, and a directory or a file
\* that can be read (lines 159-175)
Listed(e) == ~Hidden(e) /\ (e.is_dir \/ e.readable)

RECURSIVE Collect(_)
\* the loop over read_dir (lines 150-178)
Collect(es) ==
    IF es = << >> THEN << >>
    ELSE IF Listed(Head(es)) THEN <<PathEntryOf(Head(es))>> \o Collect(Tail(es))
         ELSE Collect(Tail(es))

\* NoteBrowser::get_selections_for_path on a directory whose read_dir yields
\* the entries es, in this order
get_selections_for_path(es) == Sort(Collect(es))

\* the entries the listed directories are made of
BrowserEntries ==
    {DirEntry(<<"2">>, TRUE), DirEntry(<<"1", "0">>, TRUE),
     DirEntry(<<"1", "a">>, TRUE), DirEntry(<<"z", "z", "z">>, TRUE),
     DirEntry(<<".", "g", "i", "t">>, TRUE),
     NoteEntry(<<"a", ".", "m", "d">>, <<"a", "p", "p", "l", "e">>, TRUE),
     NoteEntry(<<"2", ".", "m", "d">>, <<"2">>, TRUE),
     NoteEntry(<<"1", "0", ".", "m", "d">>, <<"1", "0">>, TRUE),
     NoteEntry(<<".", "h", ".", "m", "d">>, <<"h">>, TRUE),
     NoteEntry(<<"e", ".", "m", "d">>, <<"e">>, FALSE)}

Range(s) == {s[i] : i \in 1..Len(s)}

RECURSIVE Orders(_)
\* the orders read_dir can yield up to n of the entries in, no entry twice
Orders(n) ==
    IF n = 0 THEN {<< >>}
    ELSE Orders(n - 1) \cup
         UNION {{Append(s, e) : e \in BrowserEntries \ Range(s)} :
                   s \in {u \in Orders(n - 1) : Len(u) = n - 1}}

BrowserInit ==
    /\ fs = EmptyFs
    /\ saved = {}
    /\ lastOp = NoOp
    /\ allOk = TRUE
    /\ nOps = 0
    /\ wr = WrIdle
    /\ fpc = "idle"
    /\ froot = << >>
    /\ conds = << >>
    /\ stack = << >>
    /\ wg = 0
    /\ tasks = << >>
    /\ spawns = 0
    /\ chan = << >>
    /\ received = << >>
    /\ unreadable = {}
    /\ arg \in Orders(MaxEntries)
    /\ out = [listed |-> FALSE, result |-> << >>]

\* list(path): the whole call
List ==
    /\ ~out.listed
    /\ out' = [listed |-> TRUE, result |-> get_selections_for_path(arg)]
    /\ UNCHANGED <<arg, wvars, fvars>>

BrowserNext == List

BrowserSpec == BrowserInit /\ [][BrowserNext]_vars

(***************************************************************************)
(* One tree, with hidden entries, listed by the Browser and searched by    *)
(* the Finder                                                              *)
(***************************************************************************)
H == <<".h", "">>
D == <<".d", "">>

\* the characters of a stem or an extension
NameChars(n) ==
    CASE n = "a" -> <<"a">>
      [] n = "b" -> <<"b">>
      [] n = ".h" -> <<".", "h">>
      [] n = ".d" -> <<".", "d">>
      [] n = "index" -> <<"i", "n", "d", "e", "x">>
      [] n = "md" -> <<"m", "d">>
      [] OTHER -> << >>
\* Path::file_name as a string: the stem, and the extension after a dot
FileNameChars(n) ==
    IF Ext(n) = "" THEN NameChars(Stem(n))
    ELSE NameChars(Stem(n)) \o <<".">> \o NameChars(Ext(n))

\* what fs::read_dir yields for the directory d of the tree f; the title of
\* a note stands for what Note::get_title extracts
EntriesOf(f, d) ==
    {[file_name |-> FileNameChars(LastOf(p)), is_dir |-> IsDir(f, p),
      title |-> IF IsDir(f, p) THEN << >> ELSE <<"t">>,
      readable |-> p \notin unreadable] : p \in Children(f, d)}
\* the orders the entries of a set can be read in
Perms(S) == {s \in [1..Cardinality(S) -> S] : Range(s) = S}

\* the notes saved, in this order, to make the trees with hidden entries
HiddenNotes == <<
    [path |-> << >>, name |-> H, text |-> T1],
    [path |-> <<D>>, name |-> A, text |-> T2],
    [path |-> << >>, name |-> B, text |-> T3],
    [path |-> <<A>>, name |-> B, text |-> T2] >>

RECURSIVE HiddenTreeAfter(_)
HiddenTreeAfter(k) ==
    IF k = 0 \/ k > Len(HiddenNotes) THEN EmptyFs
    ELSE LET n == HiddenNotes[k]
         IN save_note_at(HiddenTreeAfter(k - 1), n.text, n.path, n.name, FALSE).fs

HiddenTrees == {HiddenTreeAfter(k) : k \in 0..MaxNotes}

HiddenInit ==
    /\ fs \in HiddenTrees
    /\ saved = {}
    /\ lastOp = NoOp
    /\ allOk = TRUE
    /\ nOps = 0
    /\ wr = WrIdle
    /\ fpc = "idle"
    /\ froot = << >>
    /\ conds = << >>
    /\ stack = << >>
    /\ wg = 0
    /\ tasks = << >>
    /\ spawns = 0
    /\ chan = << >>
    /\ received = << >>
    /\ unreadable = {}
    /\ arg \in Perms(EntriesOf(fs, << >>))
    /\ out = [listed |-> FALSE, result |-> << >>]

HiddenNext ==
    \/ List
    \/ FinderNext

HiddenSpec == HiddenInit /\ [][HiddenNext]_vars

(***************************************************************************)
(* NoteBrowser::get_selections_for_path on the base directory of a tree    *)
(* some of whose files cannot be read.                                     *)
(***************************************************************************)
ListTrees == {HiddenTreeAfter(k) : k \in 0..Len(HiddenNotes)} \cup FinderTrees

ListInit ==
    /\ fs \in ListTrees
    /\ saved = {}
    /\ lastOp = NoOp
    /\ allOk = TRUE
    /\ nOps = 0
    /\ wr = WrIdle
    /\ fpc = "idle"
    /\ froot = << >>
    /\ conds = << >>
    /\ stack = << >>
    /\ wg = 0
    /\ tasks = << >>
    /\ spawns = 0
    /\ chan = << >>
    /\ received = << >>
    /\ unreadable \in SUBSET {p \in Children(fs, << >>) : IsFile(fs, p)}
    /\ arg \in Perms(EntriesOf(fs, << >>))
    /\ out = [listed |-> FALSE, result |-> << >>]

ListNext == List

ListSpec == ListInit /\ [][ListNext]_vars

(***************************************************************************)
(* Writer::get_file_name_from_note applied to a title and an identifier.   *)
(* The characters are one byte each.                                       *)
(***************************************************************************)
FILE_NAME_LENGTH == 32
\* number of letters of the longest title
MaxTitle == 34

special_chars == {" ", ":", ".", ",", "/", "\\", "<", ">", "\"", "|", "?", "*", "^", "'"}
\* char::is_whitespace on the characters used
Whitespace == {" ", "\t"}

NotSpecial(c) == c \notin special_chars
RECURSIVE TrimStart(_)
TrimStart(t) == IF t # << >> /\ Head(t) \in Whitespace THEN TrimStart(Tail(t)) ELSE t
RECURSIVE TrimEnd(_)
TrimEnd(t) ==
    IF t # << >> /\ t[Len(t)] \in Whitespace THEN TrimEnd(SubSeq(t, 1, Len(t) - 1)) ELSE t
\* str::trim
Trim(t) == TrimEnd(TrimStart(t))

\* lines 99-104: the title without the special characters, trimmed and cut
Sanitized(title) ==
    LET file_name == Trim(SelectSeq(title, NotSpecial))
    IN IF Len(file_name) > FILE_NAME_LENGTH
       THEN SubSeq(file_name, 1, FILE_NAME_LENGTH)
       ELSE file_name

\* Writer::get_file_name_from_note; slicing id[..32] panics when the
\* identifier is shorter
get_file_name_from_note(title, id) ==
    LET file_name == Sanitized(title)
    IN IF file_name = << >>
       THEN IF Len(id) < FILE_NAME_LENGTH
            THEN [panic |-> TRUE, name |-> << >>]
            ELSE [panic |-> FALSE,
                  name |-> SubSeq(id, 1, FILE_NAME_LENGTH) \o <<".", "m", "d">>]
       ELSE [panic |-> FALSE, name |-> file_name \o <<".", "m", "d">>]

RECURSIVE Rep(_, _)
\* the character c, n times
Rep(c, n) == IF n = 0 THEN << >> ELSE <<c>> \o Rep(c, n - 1)

\* titles: letters with, before and after them, nothing, a special
\* character or a tab
TitleEnds == {<< >>, <<" ">>, <<".">>, <<"/">>, <<"\t">>}
Titles == {pre \o Rep("a", n) \o post : pre \in TitleEnds, post \in TitleEnds, n \in 0..MaxTitle}
\* identifiers: the 32 characters of Uuid::new_v4().to_simple(), the 36 of a
\* hyphenated uuid, and identifiers read from a front matter
Ids == {Rep("0", 32), Rep("0", 8) \o <<"-">> \o Rep("0", 27), <<"1">>,
        <<".">> \o Rep("0", 32)}

NameInit ==
    /\ fs = EmptyFs
    /\ saved = {}
    /\ lastOp = NoOp
    /\ allOk = TRUE
    /\ nOps = 0
    /\ wr = WrIdle
    /\ fpc = "idle"
    /\ froot = << >>
    /\ conds = << >>
    /\ stack = << >>
    /\ wg = 0
    /\ tasks = << >>
    /\ spawns = 0
    /\ chan = << >>
    /\ received = << >>
    /\ unreadable = {}
    /\ \E title \in Titles, id \in Ids : arg = [title |-> title, id |-> id]
    /\ out = [called |-> FALSE, panic |-> FALSE, name |-> << >>]

FileNameFor ==
    /\ ~out.called
    /\ LET r == get_file_name_from_note(arg.title, arg.id)
       IN out' = [called |-> TRUE, panic |-> r.panic, name |-> r.name]
    /\ UNCHANGED <<arg, wvars, fvars>>

NameNext == FileNameFor

NameSpec == NameInit /\ [][NameNext]_vars

(***************************************************************************)
(* Bucket (src/src/models/bucket.rs): the pending copies of temp notes     *)
(* into a notes directory.  The temp directory is a function from the      *)
(* names of its files to the notes they hold; a note is its title, its     *)
(* identifier and the text note.to_text() gives.                           *)
(***************************************************************************)
\* number of items of the longest bucket
MaxItems == 2

\* item.file_name is None
NoName == <<"", "">>
BMd == <<"b", "md">>
IdMd == <<"00000000000000000000000000000000", "md">>
\* the characters of the file names a note can be given
BucketNameChars(n) ==
    IF n = IdMd THEN Rep("0", FILE_NAME_LENGTH) \o <<".", "m", "d">>
    ELSE FileNameChars(n)
\* the file name whose characters are c
ToName(c) == CHOOSE n \in {AMd, BMd, IdMd} : BucketNameChars(n) = c

\* temp notes: one with a title, two whose title is made of special
\* characters only, with a 32-character and with a shorter identifier
TempNotes ==
    {[title |-> <<"a">>, id |-> Rep("0", 32), text |-> <<"x">>],
     [title |-> <<".">>, id |-> Rep("0", 32), text |-> <<"x">>],
     [title |-> <<".">>, id |-> <<"1">>, text |-> <<"x">>]}
\* the temp directories: t1 holds a note, t2 may be missing
TempDirs ==
    {("t1" :> n) : n \in TempNotes}
    \cup {("t1" :> n) @@ ("t2" :> [title |-> <<"b">>, id |-> Rep("0", 32), text |-> <<"y">>]) :
             n \in TempNotes}

BucketItems ==
    {[context |-> "unknown", file |-> "t1", file_name |-> NoName, dest_path |-> << >>]}
    \cup [context : {"default"}, file : {"t1", "t2"}, file_name : {NoName, A},
          dest_path : {<< >>, <<A>>, <<AMd, B>>}]
Buckets == UNION {[1..n -> BucketItems] : n \in 1..MaxItems}
BucketTrees == {EmptyFs, TreeFlat, TreeChild, TreeBoth}

\* lines 36-38: remove_file runs only in the and_then of a successful save
AfterSave(temp, file, res) ==
    IF res = "Ok" THEN [f \in DOMAIN temp \ {file} |-> temp[f]] ELSE temp

\* one turn of the loop of Bucket::process (lines 27-52) on the next item;
\* a panic in get_file_name_from_note unwinds out of process
ProcessItem ==
    /\ ~out.aborted
    /\ out.i <= Len(arg)
    /\ \E item \in {arg[out.i]} :
          IF item.context # "default"
          THEN /\ out' = [out EXCEPT !.i = @ + 1, !.res = Append(@, "ContextNotFound")]
               /\ fs' = fs
          ELSE IF item.file \notin DOMAIN out.temp
          THEN /\ out' = [out EXCEPT !.i = @ + 1, !.res = Append(@, "IoError")]
               /\ fs' = fs
          ELSE \E note \in {out.temp[item.file]} :
               \E file_name \in {IF item.file_name # NoName
                                 THEN [panic |-> FALSE, name |-> item.file_name]
                                 ELSE get_file_name_from_note(note.title, note.id)} :
                  IF file_name.panic
                  THEN /\ out' = [out EXCEPT !.aborted = TRUE]
                       /\ fs' = fs
                  ELSE \E r \in {save_note_at(fs, note.text, item.dest_path,
                                              IF item.file_name # NoName THEN file_name.name
                                              ELSE ToName(file_name.name), FALSE)} :
                          /\ fs' = r.fs
                          /\ out' = [out EXCEPT !.i = @ + 1,
                                                !.res = Append(@, r.res),
                                                !.temp = AfterSave(@, item.file, r.res)]
    /\ UNCHANGED <<arg, saved, lastOp, allOk, nOps, wr, fvars>>

BucketInit ==
    /\ fs \in BucketTrees
    /\ saved = {}
    /\ lastOp = NoOp
    /\ allOk = TRUE
    /\ nOps = 0
    /\ wr = WrIdle
    /\ fpc = "idle"
    /\ froot = << >>
    /\ conds = << >>
    /\ stack = << >>
    /\ wg = 0
    /\ tasks = << >>
    /\ spawns = 0
    /\ chan = << >>
    /\ received = << >>
    /\ unreadable = {}
    /\ arg \in Buckets
    /\ \E temp \in TempDirs : out = [i |-> 1, temp |-> temp, res |-> << >>, aborted |-> FALSE]

BucketNext == ProcessItem

BucketSpec == BucketInit /\ [][BucketNext]_vars

(***************************************************************************)
(* NottoPath and its conversions to and from a platform path               *)
(* (src/src/io/browser.rs).  A string is the sequence of its characters;   *)
(* the platform path is a Unix PathBuf.                                    *)
(***************************************************************************)
PATH_SEPARATOR == "/"
\* number of characters of the longest raw string
MaxRaw == 2
\* number of raw strings a path is built from
MaxPush == 2

PathChars == {"a", ".", PATH_SEPARATOR}
RawStrings == UNION {[1..n -> PathChars] : n \in 0..MaxRaw}

RECURSIVE Split(_)
\* str::split(PATH_SEPARATOR): the pieces between the separators, the empty
\* ones included; a string without separator is one piece
Split(s) ==
    IF \A i \in 1..Len(s) : s[i] # PATH_SEPARATOR THEN <<s>>
    ELSE LET i == CHOOSE k \in 1..Len(s) :
                     /\ s[k] = PATH_SEPARATOR
                     /\ \A j \in 1..(k - 1) : s[j] # PATH_SEPARATOR
         IN <<SubSeq(s, 1, i - 1)>> \o Split(SubSeq(s, i + 1, Len(s)))

\* NottoPath::new
new == << >>

RECURSIVE PushSegments(_, _)
\* the loop of NottoPath::push, lines 21-26
PushSegments(path, segments) ==
    IF segments = << >> THEN path
    ELSE LET sep == IF path # << >> THEN <<PATH_SEPARATOR>> ELSE << >>
         IN PushSegments(path \o sep \o Head(segments), Tail(segments))

\* NottoPath::push
push(path, raw) == PushSegments(path, Split(raw))

\* From<String> for NottoPath
from(p) == push(new, p)

\* PathBuf::push of a relative or absolute piece
PathBufPush(buf, seg) ==
    IF seg # << >> /\ Head(seg) = PATH_SEPARATOR THEN seg
    ELSE IF buf # << >> /\ buf[Len(buf)] # PATH_SEPARATOR
         THEN buf \o <<PATH_SEPARATOR>> \o seg
         ELSE buf \o seg

RECURSIVE PathBufPushAll(_, _)
PathBufPushAll(buf, segments) ==
    IF segments = << >> THEN buf
    ELSE PathBufPushAll(PathBufPush(buf, Head(segments)), Tail(segments))

\* PathEntry::string_to_pathbuf
string_to_pathbuf(path) == PathBufPushAll(<< >>, Split(path))

\* Path::components, the Component::Normal ones: the empty pieces, "." and
\* ".." are RootDir, CurDir, ParentDir or nothing
IsNormal(seg) == seg \notin {<< >>, <<".">>, <<".", ".">>}
NormalComponents(buf) == SelectSeq(Split(buf), IsNormal)

RECURSIVE PushAll(_, _)
PushAll(result, names) ==
    IF names = << >> THEN result
    ELSE PushAll(push(result, Head(names)), Tail(names))

\* PathEntry::pathbuf_to_string
pathbuf_to_string(buf) == PushAll(new, NormalComponents(buf))

NoPath == [ctor |-> "none", path |-> << >>, tripped |-> FALSE, back |-> << >>]

PathInit ==
    /\ fs = EmptyFs
    /\ saved = {}
    /\ lastOp = NoOp
    /\ allOk = TRUE
    /\ nOps = 0
    /\ wr = WrIdle
    /\ fpc = "idle"
    /\ froot = << >>
    /\ conds = << >>
    /\ stack = << >>
    /\ wg = 0
    /\ tasks = << >>
    /\ spawns = 0
    /\ chan = << >>
    /\ received = << >>
    /\ unreadable = {}
    /\ arg = << >>
    /\ out = NoPath

\* NottoPath::new()
PathNew ==
    /\ out.ctor = "none"
    /\ out' = [out EXCEPT !.ctor = "new", !.path = new]
    /\ UNCHANGED <<arg, wvars, fvars>>

\* NottoPath::from(raw)
PathFrom(raw) ==
    /\ out.ctor = "none"
    /\ out' = [out EXCEPT !.ctor = "from", !.path = from(raw)]
    /\ arg' = <<raw>>
    /\ UNCHANGED <<wvars, fvars>>

\* path.push(raw)
PathPush(raw) ==
    /\ out.ctor # "none"
    /\ Len(arg) < MaxPush
    /\ out' = [out EXCEPT !.path = push(out.path, raw), !.tripped = FALSE,
                          !.back = << >>]
    /\ arg' = Append(arg, raw)
    /\ UNCHANGED <<wvars, fvars>>

\* PathEntry::pathbuf_to_string(PathEntry::string_to_pathbuf(&path))
RoundTrip ==
    /\ out.ctor # "none"
    /\ ~out.tripped
    /\ out' = [out EXCEPT !.tripped = TRUE,
                          !.back = pathbuf_to_string(string_to_pathbuf(out.path))]
    /\ UNCHANGED <<arg, wvars, fvars>>

PathNext ==
    \/ PathNew
    \/ \E raw \in RawStrings : PathFrom(raw)
    \/ \E raw \in RawStrings : PathPush(raw)
    \/ RoundTrip

PathSpec == PathInit /\ [][PathNext]_vars

(***************************************************************************)
(* Claims about the Writer                                                 *)
(***************************************************************************)
\* the logical path P has both materializations: the regular file P.md and
\* the directory P/ containing index.md
BothMaterialized(f, P) ==
    /\ IsFile(f, SetExtension(P, FILE_NAME_EXTENSION))
    /\ IsDir(f, P)
    /\ Exists(f, Append(P, DIR_ROOT_NOTE_NAME))

LogicalPaths(f) == {WithFileStem(p) : p \in DOMAIN f \ {<< >>}}

\* C1: after any sequence of successful save / ensure_dir calls from an
\* empty base directory, no logical path P has both the regular file P.md
\* and the directory P/ containing index.md.
C1_OneIdentity ==
    allOk => \A P \in LogicalPaths(fs) : ~BothMaterialized(fs, P)

\* the step is a Writer call
IsCall == nOps' = nOps + 1
\* the bytes of the file at p, << >> when p is no regular file
DataAt(f, p) == IF IsFile(f, p) THEN f[p].data ELSE << >>

\* C2: when "a" has been saved with text X as a.md and the next call saves
\* "b" under parent "a" with text Y, then afterwards a.md is gone,
\* a/index.md holds X, a/b.md holds Y, and the probe of "a" went from
\* File("a.md") to Directory("a").
C2_PromotionPreservesContent ==
    [][(/\ IsCall
        /\ lastOp.op = "save" /\ lastOp.res = "Ok"
        /\ lastOp.path = << >> /\ lastOp.name = A /\ lastOp.target = <<AMd>>
        /\ lastOp'.op = "save" /\ lastOp'.res = "Ok"
        /\ lastOp'.path = <<A>> /\ lastOp'.name = B)
       => (/\ note_file_exists(fs, << >>, A) = FileType(AMd)
           /\ ~Exists(fs', <<AMd>>)
           /\ IsFile(fs', <<A, DIR_ROOT_NOTE_NAME>>)
           /\ DataAt(fs', <<A, DIR_ROOT_NOTE_NAME>>) = lastOp.text
           /\ IsFile(fs', <<A, <<"b", "md">>>>)
           /\ DataAt(fs', <<A, <<"b", "md">>>>) = lastOp'.text
           /\ note_file_exists(fs', << >>, A) = DirectoryType(A))]_vars

\* C3: a save with overwrite = false that fails with NoteExists leaves the
\* filesystem as it was before the call.
C3_NoOverwriteGuard ==
    [][(IsCall /\ lastOp'.op = "save" /\ lastOp'.res = "NoteExists")
       => fs' = fs]_vars

\* C4: after a successful save of text C the target file holds exactly C,
\* whatever it held before.
C4_RoundTrip ==
    [][(IsCall /\ lastOp'.op = "save" /\ lastOp'.res = "Ok")
       => (IsFile(fs', lastOp'.target)
           /\ DataAt(fs', lastOp'.target) = lastOp'.text)]_vars

\* C5: every note whose save succeeded is found by the probe, as a File or
\* as a Directory and never None, after any later successful calls.
C5_SavedNeverNone ==
    allOk => \A s \in saved : note_file_exists(fs, s[1], s[2]).type # "None"

\* the file the logical note <<parent, name>> resolves to
Resolve(f, s) == TypePath(s[1], note_file_exists(f, s[1], s[2]))

\* C10: two distinct logical notes never resolve to the same file.
C10_Bijective ==
    allOk => \A s1, s2 \in saved :
                (/\ s1 # s2
                 /\ note_file_exists(fs, s1[1], s1[2]).type # "None"
                 /\ note_file_exists(fs, s2[1], s2[2]).type # "None")
                => Resolve(fs, s1) # Resolve(fs, s2)

\* the <<parent, name>> pairs the probe is asked about
ProbeParents == {<< >>, <<A>>, <<A, Idx>>}
ProbeNames == {A, B, Idx}

\* C11: once the probe of a name returns Directory(name), it returns
\* Directory(name) after every later successful save / ensure_dir / promote
\* call.
C11_NoDemotion ==
    [][(IsCall /\ lastOp'.res = "Ok")
       => \A par \in ProbeParents, n \in ProbeNames :
             note_file_exists(fs, par, n) = DirectoryType(n)
             => note_file_exists(fs', par, n) = DirectoryType(n)]_vars

\* the tree once save has ensured its parent directory (save_note_at,
\* lines 25-27), before the probe
AfterEnsure(f, path) == IF ~Exists(f, path) THEN create_dir_all(f, path).fs ELSE f

\* C12: a successful save writes exactly one file and returns its path:
\* parent/name.md when the probe gave None, parent/f when it gave File(f),
\* parent/d/index.md when it gave Directory(d), the last two only with
\* overwrite; no other entry is created, removed or changed by the write, the
\* name does not get a second materialization, and the probe of the name
\* then resolves to the returned file.
C12_SaveTarget ==
    [][(IsCall /\ lastOp'.op = "save" /\ lastOp'.res = "Ok")
       => \A mid \in {AfterEnsure(fs, lastOp'.path)} :
          \A t \in {note_file_exists(mid, lastOp'.path, lastOp'.name)} :
             LET par == lastOp'.path
                 n == lastOp'.name
                 target == lastOp'.target
             IN /\ t.type = "None"
                      => target = Append(par, <<Stem(n), FILE_NAME_EXTENSION>>)
                /\ t.type = "File"
                      => lastOp'.overwrite /\ target = Append(par, t.name)
                /\ t.type = "Directory"
                      => /\ lastOp'.overwrite
                         /\ target = Append(Append(par, t.name), DIR_ROOT_NOTE_NAME)
                /\ IsFile(fs', target)
                /\ DOMAIN fs' = DOMAIN mid \cup {target}
                /\ \A p \in DOMAIN mid \ {target} : fs'[p] = mid[p]
                /\ BothMaterialized(fs', Append(par, n))
                      => BothMaterialized(fs, Append(par, n))
                /\ note_file_exists(fs', par, n).type # "None"
                /\ Resolve(fs', <<par, n>>) = target]_vars

\* a directory-note has just been overwritten in place
C12_Witness ==
    /\ lastOp.op = "save" /\ lastOp.res = "Ok" /\ lastOp.overwrite
    /\ lastOp.path = << >> /\ lastOp.name = A
    /\ lastOp.target = <<A, DIR_ROOT_NOTE_NAME>>
    /\ IsFile(fs, <<A, <<"b", "md">>>>)
    /\ ~Exists(fs, <<AMd>>)

\* C13: the probe returns File(name.md) when parent/name.md is a regular
\* file, whatever else exists; otherwise Directory(name) when parent/name is
\* a directory containing index.md; otherwise None; and it returns the same
\* for the name with its trailing .md as for the name without it.
C13_Probe ==
    \A par \in ProbeParents \cup {<<AMd>>}, n \in ProbeNames :
       LET r == note_file_exists(fs, par, n)
           file == Append(par, <<Stem(n), FILE_NAME_EXTENSION>>)
           dir == Append(par, n)
       IN /\ r = IF IsFile(fs, file) THEN FileType(<<Stem(n), FILE_NAME_EXTENSION>>)
                 ELSE IF IsDir(fs, dir) /\ Exists(fs, Append(dir, DIR_ROOT_NOTE_NAME))
                      THEN DirectoryType(n)
                      ELSE NoType
          /\ note_file_exists(fs, par, <<Stem(n), FILE_NAME_EXTENSION>>) = r

\* the file a.md and the directory a/ with its index.md are both there and
\* the probe answers File, while a name with neither gets None
C13_Witness ==
    /\ BothMaterialized(fs, <<A>>)
    /\ note_file_exists(fs, << >>, A) = FileType(AMd)
    /\ note_file_exists(fs, <<A>>, B) = NoType

\* C22: a call of convert_note_to_parent_note on a path that does not exist
\* or is no regular file fails with FileError and changes nothing on disk.
C22_PromoteRejects ==
    [][(IsCall /\ lastOp'.op = "promote" /\ ~IsFile(fs, lastOp'.path))
       => (lastOp'.res = "FileError" /\ fs' = fs)]_vars

\* the promotion of the directory a/ was refused, in a tree without a.md
C22_Witness ==
    /\ lastOp.op = "promote" /\ lastOp.res = "FileError"
    /\ lastOp.path = <<A>> /\ IsDir(fs, <<A>>)
    /\ ~Exists(fs, <<AMd>>)

\* the prefix p of an ensure_dir path is a directory after the call; when it
\* was missing before and p.md was a regular file, p/index.md holds what
\* p.md held and p.md is gone
PrefixEnsured(before, after, p) ==
    /\ IsDir(after, p)
    /\ (~Exists(before, p) /\ IsFile(before, SetExtension(p, FILE_NAME_EXTENSION)))
       => (/\ IsFile(after, Append(p, DIR_ROOT_NOTE_NAME))
           /\ DataAt(after, Append(p, DIR_ROOT_NOTE_NAME))
                 = DataAt(before, SetExtension(p, FILE_NAME_EXTENSION))
           /\ ~Exists(after, SetExtension(p, FILE_NAME_EXTENSION)))

\* C23: whenever create_dir_all(path) returns Ok, every prefix of path is a
\* directory, and each prefix that was only a file-note p.md has been
\* promoted to p/index.md.
C23_EnsureDirPost ==
    [][(IsCall /\ lastOp'.op = "ensure_dir" /\ lastOp'.res = "Ok")
       => \A i \in 1..Len(lastOp'.path) :
             PrefixEnsured(fs, fs', Prefix(lastOp'.path, i))]_vars

\* C24: after convert_note_to_parent_note(leaf.md) returns Ok, leaf.md no
\* longer exists, leaf/ is a directory, leaf/index.md holds exactly what
\* leaf.md held before the call, no temporary file remains in the parent
\* directory, and every other file and directory is unchanged.
C24_PromotePost ==
    [][(/\ IsCall
        /\ lastOp'.op = "promote" /\ lastOp'.res = "Ok"
        /\ Ext(LastOf(lastOp'.path)) = FILE_NAME_EXTENSION)
       => LET leaf_md == lastOp'.path
              leaf == WithFileStem(leaf_md)
              index == Append(leaf, DIR_ROOT_NOTE_NAME)
          IN /\ ~Exists(fs', leaf_md)
             /\ IsDir(fs', leaf)
             /\ IsFile(fs', index)
             /\ DataAt(fs', index) = DataAt(fs, leaf_md)
             /\ \A t \in TmpNames : ~Exists(fs', Append(ParentOf(leaf_md), t))
             /\ DOMAIN fs' = (DOMAIN fs \ {leaf_md}) \cup {leaf, index}
             /\ \A q \in DOMAIN fs \ {leaf_md, index} : fs'[q] = fs[q]]_vars

\* a.md was promoted next to the file a/b.md
C24_Witness ==
    /\ lastOp.op = "promote" /\ lastOp.res = "Ok" /\ lastOp.path = <<AMd>>
    /\ IsFile(fs, <<A, DIR_ROOT_NOTE_NAME>>)
    /\ IsFile(fs, <<A, <<"b", "md">>>>)

\* the tree `after` is the tree `before` with the directory p added
PlainDirAdded(before, after, p) ==
    /\ IsDir(after, p)
    /\ DOMAIN after = DOMAIN before \cup {p}
    /\ \A q \in DOMAIN before : after[q] = before[q]

\* C27: in create_dir_all, when a prefix p does not exist at all: if p.md is
\* a regular file it is promoted; in every other case p is created as a
\* plain directory, nothing is promoted and no error is returned.  Stated
\* for the calls whose last prefix is the only missing one.
C27_MissingPrefix ==
    [][(/\ IsCall
        /\ lastOp'.op = "ensure_dir" /\ lastOp'.path # << >>
        /\ ~Exists(fs, lastOp'.path)
        /\ \A i \in 1..(Len(lastOp'.path) - 1) : IsDir(fs, Prefix(lastOp'.path, i)))
       => LET p == lastOp'.path
              p_md == SetExtension(p, FILE_NAME_EXTENSION)
          IN /\ lastOp'.res = "Ok"
             /\ IF IsFile(fs, p_md)
                THEN /\ ~Exists(fs', p_md)
                     /\ IsFile(fs', Append(WithFileStem(p), DIR_ROOT_NOTE_NAME))
                     /\ DataAt(fs', Append(WithFileStem(p), DIR_ROOT_NOTE_NAME))
                           = DataAt(fs, p_md)
                ELSE PlainDirAdded(fs, fs', p)]_vars

\* C28: when the parent path of a save, or one of its prefixes, exists as
\* a regular file, the save promotes that file (its content moves to the
\* index.md of its directory) and writes the new note, instead of failing.
C28_SavePromotesParent ==
    [][(IsCall /\ lastOp'.op = "save")
       => \A i \in 1..Len(lastOp'.path) :
             LET q == Prefix(lastOp'.path, i)
             IN IsFile(fs, q)
                => (/\ lastOp'.res = "Ok"
                    /\ IsFile(fs', lastOp'.target)
                    /\ IsFile(fs', Append(WithFileStem(q), DIR_ROOT_NOTE_NAME))
                    /\ DataAt(fs', Append(WithFileStem(q), DIR_ROOT_NOTE_NAME))
                          = DataAt(fs, q))]_vars

\* the frames of the call that hold a promotion whose first rename is done
\* and whose second rename is not
WindowFrames == {k \in 1..Len(wr[1].stack) : wr[1].stack[k].tmp # << >>}
\* the call stopped: the process crashed, or a step failed
Stopped == wr[1].pc = "crashed" \/ (wr[1].pc = "done" /\ wr[1].res # "Ok")
\* the create_dir_all of the promotion in frame k has returned Ok
Step2Done(k) == k = Len(wr[1].stack)

Files(f) == {q \in DOMAIN f : IsFile(f, q)}
Holders(f, d) == {q \in Files(f) : f[q].data = d}

\* C26: until the new note is written, every text of the tree the call
\* started on is held by exactly one file; while a promotion is between its
\* step 1 and the end of its step 3 that file is the temporary one, leaf.md
\* is missing and the probe of the leaf answers None.
C26_OneHolder ==
    wr[1].res # "Ok"
    => /\ \A p \in Files(arg) : Cardinality(Holders(fs, arg[p].data)) = 1
       /\ \A k \in WindowFrames :
             LET fr == wr[1].stack[k]
                 leaf == WithFileStem(fr.note)
             IN /\ IsFile(fs, fr.tmp)
                /\ \E p \in Files(arg) : arg[p].data = fs[fr.tmp].data
                /\ ~Exists(fs, fr.note)
                /\ note_file_exists(fs, ParentOf(fr.note), LastOf(leaf)) = NoType

\* C32: a successful save leaves the content of every other saved note
\* unchanged: the file the probe resolves the note to holds after the call
\* what it held before.
C32_SaveFrame ==
    [][(IsCall /\ lastOp'.op = "save" /\ lastOp'.res = "Ok")
       => \A s \in saved \ {<<lastOp'.path, lastOp'.name>>} :
             note_file_exists(fs, s[1], s[2]).type # "None"
             => (/\ note_file_exists(fs', s[1], s[2]).type # "None"
                 /\ DataAt(fs', Resolve(fs', s)) = DataAt(fs, Resolve(fs, s)))]_vars

\* both calls are over
BothDone == \A w \in CWriters : wr[w].pc = "done"
\* the calls ran one after the other: each began with the other one not
\* begun or over
Sequential == \A w \in CWriters : wr[w].alone
\* the two calls are saves of two different notes
DistinctNotes == <<wr[1].path, wr[1].name>> # <<wr[2].path, wr[2].name>>
\* no logical path has both materializations, every saved note is found by
\* the probe, and no temp file of a promotion is left
TreeConsistent ==
    /\ \A P \in LogicalPaths(fs) : ~BothMaterialized(fs, P)
    /\ \A n \in saved : note_file_exists(fs, n[1], n[2]).type # "None"
    /\ \A p \in DOMAIN fs \ {<< >>} : LastOf(p) \notin TmpNames

\* C15: two saves of different notes below a shared prefix, run one after
\* the other in either order, both return Ok and leave a consistent tree
\* (run at once they need not: the witness is a run where one of them fails).
C15_SequentialSafe ==
    (BothDone /\ Sequential /\ DistinctNotes)
    => /\ \A w \in CWriters : wr[w].res = "Ok"
       /\ TreeConsistent

\* the two calls overlapped while a.md was being promoted, and one failed
\* or the tree is left inconsistent
C15_Witness ==
    /\ BothDone
    /\ ~Sequential
    /\ DistinctNotes
    /\ <<<< >>, A>> \in saved
    /\ \/ \E w \in CWriters : wr[w].res # "Ok"
       \/ ~TreeConsistent

\* the name without its last three characters, the extension ".md"
StemOf(name) == SubSeq(name, 1, Len(name) - 3)

\* C20: for every title and identifier file_name_for returns a name that
\* ends in ".md" and whose stem is non-empty, at most 32 characters long
\* and free of the forbidden characters: the sanitized title cut to 32, or
\* the identifier cut to 32 when the sanitized title is empty.
C20_FileName ==
    out.called
    => /\ ~out.panic
       /\ Len(out.name) > 3
       /\ SubSeq(out.name, Len(out.name) - 2, Len(out.name)) = <<".", "m", "d">>
       /\ Len(StemOf(out.name)) <= FILE_NAME_LENGTH
       /\ \A i \in 1..Len(StemOf(out.name)) : StemOf(out.name)[i] \notin special_chars
       /\ StemOf(out.name) =
             IF Sanitized(arg.title) # << >> THEN Sanitized(arg.title)
             ELSE SubSeq(arg.id, 1, FILE_NAME_LENGTH)

(***************************************************************************)
(* Claims about the Finder                                                 *)
(***************************************************************************)
\* every message put on the channel so far, in the order it was sent
Sent == received \o chan
FinishAt(m) == {i \in 1..Len(m) : m[i].type = "Finish"}
ResultAt(m) == {i \in 1..Len(m) : m[i].type = "Result"}

\* C6: Finish is put on the channel at most once, exactly once when find
\* has returned Ok, only when every spawned leaf thread has finished and the
\* WaitGroup is at zero, and it is the last message ever sent.
C6_FinishLast ==
    /\ Cardinality(FinishAt(Sent)) <= 1
    /\ fpc = "returned" => Cardinality(FinishAt(Sent)) = 1
    /\ \A i \in FinishAt(Sent) :
          /\ i = Len(Sent)
          /\ wg = 0
          /\ \A p \in DOMAIN tasks : tasks[p] = "done"

C6_Witness ==
    /\ fpc = "returned"
    /\ Cardinality(ResultAt(Sent)) = 2
    /\ Sent[3] = FinishMsg

\* the leaf files at any depth below the searched path
IsPrefixOf(d, p) == Len(d) <= Len(p) /\ SubSeq(p, 1, Len(d)) = d
LeavesUnder(f, d) == {p \in DOMAIN f : IsFile(f, p) /\ IsPrefixOf(d, p)}
MatchingLeaves(f, d, cs) ==
    {p \in LeavesUnder(f, d) : check_conds(cs, NoteContent(f[p].data))}

\* C7: when find has returned on a tree whose entries are all readable, one
\* thread was spawned per leaf file below the root, and the channel got
\* exactly one Result per matching leaf, none twice and none for another
\* leaf, followed by one Finish.
C7_Completeness ==
    (fpc = "returned" /\ unreadable = {})
    => /\ DOMAIN tasks = LeavesUnder(fs, froot)
       /\ spawns = Cardinality(LeavesUnder(fs, froot))
       /\ {Sent[i].path : i \in ResultAt(Sent)} = MatchingLeaves(fs, froot, conds)
       /\ Cardinality(ResultAt(Sent)) = Cardinality(MatchingLeaves(fs, froot, conds))
       /\ Len(Sent) = Cardinality(ResultAt(Sent)) + 1
       /\ Sent[Len(Sent)] = FinishMsg

C7_Witness ==
    /\ fpc = "returned"
    /\ unreadable = {}
    /\ Cardinality(LeavesUnder(fs, froot)) = 3
    /\ Cardinality(MatchingLeaves(fs, froot, conds)) = 2
    /\ Sent[1].path = <<A, <<"b", "md">>>>
    /\ Sent[2].path = <<A, DIR_ROOT_NOTE_NAME>>

\* C8: under fair scheduling every find call that started its walk returns,
\* with nothing received from the channel before it does.
C8_Terminates == (fpc = "walk") ~> (fpc = "returned")

C8_Witness ==
    /\ fpc = "returned"
    /\ received = << >>
    /\ Cardinality(ResultAt(chan)) = 2

\* C9: the caller can drain the channel while the search is producing: as
\* soon as a Result is on the channel and Finish is not yet, the caller holds
\* the receiver.
C9_Streaming ==
    (ResultAt(chan) # {} /\ FinishAt(chan) = {}) => CallerHasReceiver

\* the leaf files below the searched path whose read fails
UnreadableLeaves == unreadable \cap LeavesUnder(fs, froot)

\* C14: when the read of a leaf file fails, the search still walks to its
\* return; that leaf sends no Result, its thread has ended and released the
\* WaitGroup, every other matching leaf has sent its Result, and Finish is
\* the last message.
C14_ReadFailureNotFatal ==
    /\ []((fpc = "returned" /\ UnreadableLeaves = unreadable)
          => /\ \A u \in UnreadableLeaves : tasks[u] = "done"
             /\ wg = 0
             /\ {Sent[i].path : i \in ResultAt(Sent)}
                   = MatchingLeaves(fs, froot, conds) \ unreadable
             /\ Len(Sent) = Cardinality(ResultAt(Sent)) + 1
             /\ Sent[Len(Sent)] = FinishMsg)
    /\ ((fpc = "walk" /\ UnreadableLeaves # {}) ~> (fpc = "returned"))

\* a search returned although the read of a leaf that would match failed
C14_Witness ==
    /\ fpc = "returned"
    /\ froot = << >>
    /\ conds = <<TextCond(<<"x">>)>>
    /\ unreadable = {<<A, <<"b", "md">>>>}
    /\ <<A, <<"b", "md">>>> \in MatchingLeaves(fs, froot, conds)
    /\ Sent = <<ResultMsg(<<A, DIR_ROOT_NOTE_NAME>>), FinishMsg>>

\* the paths of the Results sent
ResultPaths == {Sent[i].path : i \in ResultAt(Sent)}
\* the leaf files below the searched path that can be read
ReadableLeaves == LeavesUnder(fs, froot) \ unreadable
\* every directory below the searched path can be read
DirsReadable == \A u \in unreadable : IsFile(fs, u)

\* C16: when find has returned, a readable leaf has sent a Result iff its
\* note satisfies every condition of the list: every readable leaf for the
\* empty list, no leaf when the list holds a Tag, Date or Time condition;
\* and in each case exactly one Finish was sent, as the last message.
C16_Conjunction ==
    (fpc = "returned" /\ DirsReadable)
    => /\ ResultPaths =
             {p \in ReadableLeaves :
                 \A i \in 1..Len(conds) : CondMatches(conds[i], NoteContent(fs[p].data))}
       /\ conds = << >> => ResultPaths = ReadableLeaves
       /\ (\E i \in 1..Len(conds) : conds[i].kind \in {"Tag", "Date", "Time"})
             => ResultPaths = {}
       /\ Cardinality(FinishAt(Sent)) = 1
       /\ Sent[Len(Sent)] = FinishMsg

\* a search for two texts returned the one note holding both, and not the
\* note that holds only the first
C16_Witness ==
    /\ fpc = "returned"
    /\ froot = << >>
    /\ unreadable = {}
    /\ conds = <<TextCond(<<"x">>), TextCond(<<"y">>)>>
    /\ Cardinality(LeavesUnder(fs, froot)) = 3
    /\ IsFile(fs, <<A, <<"b", "md">>>>)
    /\ CondMatches(conds[1], NoteContent(fs[<<A, <<"b", "md">>>>].data))
    /\ Sent = <<ResultMsg(<<A, DIR_ROOT_NOTE_NAME>>), FinishMsg>>

\* the directory phase has entries left to look at
WalkPending == fpc = "walk" /\ \E i \in 1..Len(stack) : stack[i].todo # {}

\* C29: no leaf task is dispatched before the directory phase has walked
\* every directory under the root and found every leaf file.
C29_TwoPhase == WalkPending => DOMAIN tasks = {}

\* C17: changing the case of a letter of the query or of the content never
\* changes whether the Text condition matches.
C17_CaseInsensitive ==
    [][(out # "none" /\ out' # "none") => out' = out]_vars

(***************************************************************************)
(* Claims about the Browser                                                *)
(***************************************************************************)
\* C18: in a listing every directory entry precedes every file entry, and
\* of two entries of the same kind the earlier one has the smaller number
\* when both names parse as integers, the lexicographically smaller name
\* otherwise.
C18_BrowserOrdering ==
    out.listed
    => \A i, j \in 1..Len(out.result) :
          i < j
          => LET a == out.result[i]
                 b == out.result[j]
             IN /\ ~(~a.is_dir /\ b.is_dir)
                /\ a.is_dir = b.is_dir
                      => IF ParseI32(a.name).ok /\ ParseI32(b.name).ok
                         THEN ParseI32(a.name).val <= ParseI32(b.name).val
                         ELSE ~StrLess(b.name, a.name)

\* C33: on the entries of a listing that are of the same kind the
\* comparison of the sort is transitive and antisymmetric, and the listing
\* is the same whatever order the directory entries were read in.
C33_Comparator ==
    out.listed
    => /\ \A a, b, c \in Range(out.result) :
             (a.is_dir = b.is_dir /\ b.is_dir = c.is_dir /\ lt(a, b) /\ lt(b, c))
             => lt(a, c)
       /\ \A a, b \in Range(out.result) : ~(lt(a, b) /\ lt(b, a))
       /\ \A s \in Perms(Range(arg)) : get_selections_for_path(s) = out.result

\* the path has, below the searched path, a component whose name begins
\* with "."
HiddenBelow(root, p) ==
    \E i \in (Len(root) + 1)..Len(p) : FileNameChars(p[i])[1] = "."

\* C19: no entry whose file name begins with "." is in a listing; and when
\* find has returned, every matching leaf that is hidden, or lies in a
\* hidden directory, has sent its Result.
C19_Hidden ==
    /\ out.listed
          => \A i \in 1..Len(out.result) : out.result[i].path[1] # "."
    /\ fpc = "returned"
          => \A p \in MatchingLeaves(fs, froot, conds) :
                HiddenBelow(froot, p) => p \in ResultPaths

\* the base directory holds .h.md and .d/a.md: listed, it shows neither
\* .h.md nor .d; searched, both notes are returned
C19_Witness ==
    /\ out.listed
    /\ Len(arg) = 3
    /\ Len(out.result) = 1
    /\ \E i \in 1..Len(arg) : Hidden(arg[i]) /\ arg[i].is_dir
    /\ \E i \in 1..Len(arg) : Hidden(arg[i]) /\ ~arg[i].is_dir
    /\ fpc = "returned"
    /\ froot = << >>
    /\ conds = <<TextCond(<<"x">>)>>
    /\ ResultPaths = {<<<<".h", "md">>>>, <<D, AMd>>}

(***************************************************************************)
(* Claims about NottoPath                                                  *)
(***************************************************************************)
\* no empty segment: no separator first, last, or next to another one
Normalized(p) ==
    /\ p # << >> => (Head(p) # PATH_SEPARATOR /\ p[Len(p)] # PATH_SEPARATOR)
    /\ \A i \in 1..(Len(p) - 1) :
          ~(p[i] = PATH_SEPARATOR /\ p[i + 1] = PATH_SEPARATOR)

\* C21: a NottoPath built from any raw string, and after any sequence of
\* push calls, has no empty segment, no leading separator and no trailing
\* separator.
C21_Normalized == out.ctor # "none" => Normalized(out.path)

\* C30: converting a NottoPath to a platform path and back yields a
\* NottoPath equal to it.
C30_RoundTrip == out.tripped => out.back = out.path

(***************************************************************************)
(* Claims about the listing of a directory                                 *)
(***************************************************************************)
\* the child p of the listed directory is to be shown: not hidden, and a
\* directory or a file that can be read
Shown(f, p) ==
    /\ FileNameChars(LastOf(p))[1] # "."
    /\ IsDir(f, p) \/ p \notin unreadable

\* res holds exactly one entry for every shown child of the base directory
\* of f, with the name the claim gives it, and no other entry
ListingOf(res, f) ==
    /\ Len(res) = Cardinality({p \in Children(f, << >>) : Shown(f, p)})
    /\ \A p \in Children(f, << >>) :
          Shown(f, p)
          => \E i \in 1..Len(res) :
                /\ res[i].path = FileNameChars(LastOf(p))
                /\ res[i].is_dir = IsDir(f, p)
                /\ res[i].name = IF IsDir(f, p) THEN FileNameChars(LastOf(p))
                                  ELSE <<"t", " ", "[">> \o FileNameChars(LastOf(p))
                                          \o <<"]">>

\* C31: a listing holds exactly one entry per immediate non-hidden child
\* that is a directory or a readable file, a directory under its raw name
\* and a file under "title [filename]"; unreadable files and deeper
\* descendants give no entry, and the filesystem is unchanged.
C31_Listing ==
    [][(~out.listed /\ out'.listed)
       => (fs' = fs /\ ListingOf(out'.result, fs))]_vars

\* the base directory holds a directory with a note in it, a hidden file
\* and a file that cannot be read: only the directory is listed
C31_Witness ==
    /\ out.listed
    /\ IsFile(fs, <<A, <<"b", "md">>>>)
    /\ unreadable = {<<<<"b", "md">>>>}
    /\ IsFile(fs, <<<<".h", "md">>>>)
    /\ \E i \in 1..Len(out.result) : out.result[i].name = <<"a">> /\ out.result[i].is_dir
    /\ \A i \in 1..Len(out.result) : out.result[i].is_dir

(***************************************************************************)
(* Claims about directories that cannot be read during a search            *)
(***************************************************************************)
\* the directories strictly below the searched path whose read fails
UnreadableDirs ==
    {u \in unreadable : IsDir(fs, u) /\ u # froot /\ IsPrefixOf(froot, u)}
\* the leaf p lies below a directory whose read fails
Cut(p) == \E u \in UnreadableDirs : IsPrefixOf(u, p)

FileTexts(f) == {f[p].data : p \in {q \in DOMAIN f : IsFile(f, q)}}
\* the turn of the loop for the item out.i has completed
Turn == out'.i = out.i + 1

\* C35: in every turn of Bucket::process a temp file is removed only when
\* the save of its note returned Ok and the text is in a file of the tree;
\* a turn that fails keeps the temp file; no content held by a file of the
\* tree is lost; and no turn ends the loop before the remaining items.
C35_BucketReplay ==
    [][/\ (DOMAIN out'.temp # DOMAIN out.temp)
          => (/\ Turn
              /\ out'.res[out.i] = "Ok"
              /\ \A t \in DOMAIN out.temp \ DOMAIN out'.temp :
                    out.temp[t].text \in FileTexts(fs'))
       /\ (Turn /\ out'.res[out.i] # "Ok") => out'.temp = out.temp
       /\ FileTexts(fs) \subseteq FileTexts(fs')
       /\ ~out'.aborted]_vars
====
